---- MODULE Spec2Model ----
(***************************************************************************)
(* Model of RNS/Interfaces/LocalInterface.py: the HDLC framing codec, the  *)
(* LocalClientInterface connection (read loop, send, reconnect, teardown)  *)
(* and the LocalServerInterface that spawns one connection per accepted    *)
(* socket.  Python statements that read and then write a shared attribute  *)
(* (x += 1, "if x in l: l.remove(x)", "if not flag: flag = True") are      *)
(* modelled as the separate read and write steps the interpreter runs, so  *)
(* that threads interleave between them.                                   *)
(*                                                                         *)
(* Three process configurations are modelled, each with its own            *)
(* specification over the same variables and the same thread steps:        *)
(*   Spec        a shared-instance process: server + spawned connections   *)
(*   SpecClient  a client process: the initiating connection               *)
(*   SpecFrame   the byte stream between a sender and a read loop          *)
(***************************************************************************)
EXTENDS Integers, Sequences, FiniteSets, TLC

\* ---------------------------------------------------------------- bounds
NumChildren == 2
NumSenders  == 2
MaxSends    == 2
LifecycleSends == 1
MaxCloses   == 2
MaxErrors   == 1
MaxFails    == 1
MaxStream   == 5
\* RNS.Reticulum.HEADER_MINSIZE is defined outside LocalInterface.py; the read
\* loop only compares a frame's length with it.  It is a parameter here, small
\* enough that frames below, at and above it are sent.
HEADER_MINSIZE == 1
MaxLen      == 3
MaxRx       == 2

\* ------------------------------------------------------- HDLC constants
FLAG     == 126
ESC      == 125
ESC_MASK == 32

Children == 1..NumChildren
\* Connection 0 is the initiating connection of a client process.
Initiator == 0
Conns == {Initiator} \cup Children

Handler(c) == <<"handler", c>>
Sender(i)  == <<"sender", i>>
HandlerThreads == {Handler(c) : c \in Children}
SenderThreads  == {Sender(i) : i \in 1..NumSenders}
Reader(k)  == <<"reader", k>>
Caller(k)  == <<"caller", k>>
ReaderThreads  == {Reader(k) : k \in 1..(MaxCloses + 2)}
CallerThreads  == {Caller(1)}
\* The thread that calls detach() on the initiating connection.
Detacher == <<"detacher", 1>>
Threads == HandlerThreads \cup SenderThreads \cup ReaderThreads \cup CallerThreads
               \cup {Detacher}

VARIABLES
    interfaces,               \* RNS.Transport.interfaces
    local_client_interfaces,  \* RNS.Transport.local_client_interfaces
    clients,                  \* LocalServerInterface.clients
    srv_txb,                  \* LocalServerInterface.txb
    srv_online,               \* LocalServerInterface.online
    online, IN_on, OUT_on,    \* per connection: self.online, self.IN, self.OUT
    is_connected_to_shared_instance,
    sock,                     \* per connection: state of self.socket
    txb,                      \* per connection: self.txb
    pc, conn, tmp, dlen, nowarning, ctx,   \* per thread
    procState,                \* "running", "exited" (RNS.exit), "panicked" (RNS.panic)
    panic_on_interface_error, \* RNS.Reticulum.panic_on_interface_error
    sends,                    \* number of process_outgoing calls started
    sentBytes,                \* per connection: bytes handed to sendall successfully
    tdRaised,                 \* some teardown() invocation raised
    \* the initiating connection (a client process)
    reconnecting, never_connected, detached,
    disappeared,              \* calls of RNS.Transport.shared_connection_disappeared()
    reappeared,               \* calls of RNS.Transport.shared_connection_reappeared()
    jobs,                     \* delayed job threads started and not yet run
    dials,                    \* connect() calls that succeeded inside reconnect()
    closes, errors, fails,    \* environment: peer closes, socket errors, failed dials
    lastLoss,                 \* what the read loop observed last: "none", "close", "error"
    \* the byte stream into the read loop of connection FrameConn
    wire,                     \* bytes sent by the peer and not yet returned by recv
    frame_buffer,             \* read_loop's frame_buffer
    delivered,                \* frames handed to owner.inbound, in order
    rxb, srv_rxb,             \* self.rxb per connection, parent_interface.rxb
    sent,                     \* payloads the peer has sent, in order
    decoded,                  \* <<result>> of the decode substitutions, <<>> before
    pending,                  \* per connection: frames of the current read not yet processed
    dispatched                \* per connection: the owner.inbound calls made, in order

srvVars == <<interfaces, local_client_interfaces, clients, srv_txb, srv_online>>
connVars == <<online, IN_on, OUT_on, is_connected_to_shared_instance, sock, txb>>
thrVars == <<pc, conn, tmp, dlen, nowarning, ctx>>
envVars == <<procState, panic_on_interface_error, sends, sentBytes, tdRaised>>
cliVars == <<reconnecting, never_connected, detached, disappeared, reappeared,
             jobs, dials, closes, errors, fails, lastLoss>>
frameVars == <<wire, frame_buffer, delivered, rxb, srv_rxb, sent, decoded,
               pending, dispatched>>
otherVars == <<cliVars, frameVars>>
vars == <<srvVars, connVars, thrVars, envVars, cliVars, frameVars>>

Running == procState = "running"

\* ------------------------------------------------------------ HDLC codec
RECURSIVE XorBits(_, _, _)
XorBits(a, b, n) ==
    IF n = 0 THEN 0
    ELSE ((a + b) % 2) + 2 * XorBits(a \div 2, b \div 2, n - 1)

\* The ^ of two bytes.
Xor(a, b) == XorBits(a, b, 8)

\* bytes.replace(old, new): left to right, non-overlapping.
RECURSIVE Replace(_, _, _)
Replace(s, old, new) ==
    IF Len(s) < Len(old) THEN s
    ELSE IF SubSeq(s, 1, Len(old)) = old
         THEN new \o Replace(SubSeq(s, Len(old) + 1, Len(s)), old, new)
         ELSE <<s[1]>> \o Replace(Tail(s), old, new)

\* HDLC.escape with its two replacements in the other order.
escape_flag_first(data) ==
    LET d1 == Replace(data, <<FLAG>>, <<ESC, Xor(FLAG, ESC_MASK)>>)
    IN  Replace(d1, <<ESC>>, <<ESC, Xor(ESC, ESC_MASK)>>)

\* HDLC.escape
escape(data) ==
    LET d1 == Replace(data, <<ESC>>, <<ESC, Xor(ESC, ESC_MASK)>>)
    IN  Replace(d1, <<FLAG>>, <<ESC, Xor(FLAG, ESC_MASK)>>)

\* process_outgoing: data = bytes([HDLC.FLAG])+HDLC.escape(data)+bytes([HDLC.FLAG])
Encode(data) == <<FLAG>> \o escape(data) \o <<FLAG>>

\* The read loop's substitutions in the other order.
Decode_esc_first(frame) ==
    LET f1 == Replace(frame, <<ESC, Xor(ESC, ESC_MASK)>>, <<ESC>>)
    IN  Replace(f1, <<ESC, Xor(FLAG, ESC_MASK)>>, <<FLAG>>)

\* read_loop: the two frame.replace(...) lines
Decode(frame) ==
    LET f1 == Replace(frame, <<ESC, Xor(FLAG, ESC_MASK)>>, <<FLAG>>)
    IN  Replace(f1, <<ESC, Xor(ESC, ESC_MASK)>>, <<ESC>>)

\* s[a:b] and s[a:] of Python, a and b counted from 0.
Slice(s, a, b) == SubSeq(s, a + 1, b)
SliceFrom(s, a) == SubSeq(s, a + 1, Len(s))

\* bytes.find(byte, start): the first index >= start holding byte, or -1.
Find(s, byte, start) ==
    LET hits == {i \in 0..(Len(s) - 1) : i >= start /\ s[i + 1] = byte}
    IN  IF hits = {} THEN -1 ELSE CHOOSE i \in hits : \A j \in hits : i <= j

\* The filter with >= for >.
Deliverable_ge(frame) == Len(frame) >= HEADER_MINSIZE

\* No filter: every frame is passed on.
Deliverable_all(frame) == Len(frame) >= 0

\* if len(frame) > RNS.Reticulum.HEADER_MINSIZE: self.process_incoming(frame)
Deliverable(frame) == Len(frame) > HEADER_MINSIZE

\* The scan taking the end of the buffer for a closing delimiter.
RECURSIVE Scan_eager(_, _)
Scan_eager(buf, out) ==
    LET frame_start == Find(buf, FLAG, 0) IN
    IF frame_start = -1 THEN [buf |-> buf, out |-> out]
    ELSE LET frame_end == Find(buf, FLAG, frame_start + 1) IN
         IF frame_end = -1
         THEN LET frame == Decode(SliceFrom(buf, frame_start + 1))
              IN  [buf |-> <<>>, out |-> IF Deliverable(frame) THEN Append(out, frame) ELSE out]
         ELSE LET frame == Decode(Slice(buf, frame_start + 1, frame_end))
              IN  Scan_eager(SliceFrom(buf, frame_end),
                             IF Deliverable(frame) THEN Append(out, frame) ELSE out)

\* read_loop's "while flags_remaining" over frame_buffer: the buffer left over
\* and the frames passed to process_incoming, in order.
RECURSIVE Scan(_, _)
Scan(buf, out) ==
    LET frame_start == Find(buf, FLAG, 0) IN
    IF frame_start = -1 THEN [buf |-> buf, out |-> out]
    ELSE LET frame_end == Find(buf, FLAG, frame_start + 1) IN
         IF frame_end = -1 THEN [buf |-> buf, out |-> out]
         ELSE LET frame == Decode(Slice(buf, frame_start + 1, frame_end))
              IN  Scan(SliceFrom(buf, frame_end),
                       IF Deliverable(frame) THEN Append(out, frame) ELSE out)

RECURSIVE TotalLen(_)
TotalLen(frames) == IF frames = <<>> THEN 0 ELSE Len(Head(frames)) + TotalLen(Tail(frames))

\* socket.recv(4096)
RECV_SIZE == 4096

\* Sequences over S of length at most n.
SeqsUpTo(S, n) == UNION {[1..k -> S] : k \in 0..n}

\* Payloads the owner hands to process_outgoing in the process models.
SendFrames == {<<65>>, <<FLAG>>}

\* ------------------------------------------------------------- teardown
\* teardown(nowarning) called by thread t on connection c from context cx:
\* "send" (process_outgoing's except), "read_else" (read_loop, zero-length
\* read) or "read_exc" (read_loop's except).
CallTeardown(t, c, nw, cx) ==
    /\ pc' = [pc EXCEPT ![t] = "td_flags"]
    /\ conn' = [conn EXCEPT ![t] = c]
    /\ nowarning' = [nowarning EXCEPT ![t] = nw]
    /\ ctx' = [ctx EXCEPT ![t] = cx]

\* list.remove(x) with x absent raises ValueError.  Inside read_loop's try
\* (the zero-length branch) it is caught by "except Exception"; raised from
\* that handler or from process_outgoing's handler it leaves the function.
RaiseTarget(t) == IF ctx[t] = "read_else" THEN "rl_exc" ELSE "raised"

\* Where teardown returns to: process_outgoing returns to its caller; the
\* read loop breaks and its thread ends.
ReturnTarget(t) == IF ctx[t] = "send" THEN "idle" ELSE "done"

\* A call returns: the frame's locals are gone.
Return(t, target) ==
    /\ pc' = [pc EXCEPT ![t] = target]
    /\ tmp' = [tmp EXCEPT ![t] = 0]
    /\ dlen' = [dlen EXCEPT ![t] = 0]
    /\ nowarning' = [nowarning EXCEPT ![t] = FALSE]
    /\ ctx' = [ctx EXCEPT ![t] = "none"]

TdFlags(t) ==
    /\ Running /\ pc[t] = "td_flags"
    /\ online' = [online EXCEPT ![conn[t]] = FALSE]
    /\ OUT_on' = [OUT_on EXCEPT ![conn[t]] = FALSE]
    /\ IN_on' = [IN_on EXCEPT ![conn[t]] = FALSE]
    /\ pc' = [pc EXCEPT ![t] = "td_if"]
    /\ UNCHANGED <<otherVars, srvVars, is_connected_to_shared_instance, sock, txb,
                   conn, tmp, dlen, nowarning, ctx, envVars>>

TdCheckInterfaces(t) ==
    /\ Running /\ pc[t] = "td_if"
    /\ pc' = [pc EXCEPT ![t] = IF conn[t] \in interfaces THEN "td_if_rm" ELSE "td_lci"]
    /\ UNCHANGED <<otherVars, srvVars, connVars, conn, tmp, dlen, nowarning, ctx, envVars>>

TdRemoveInterfaces(t) ==
    /\ Running /\ pc[t] = "td_if_rm"
    /\ IF conn[t] \in interfaces
       THEN /\ interfaces' = interfaces \ {conn[t]}
            /\ pc' = [pc EXCEPT ![t] = "td_lci"]
            /\ UNCHANGED tdRaised
       ELSE /\ pc' = [pc EXCEPT ![t] = RaiseTarget(t)]
            /\ tdRaised' = TRUE
            /\ UNCHANGED interfaces
    /\ UNCHANGED <<otherVars, local_client_interfaces, clients, srv_txb, srv_online,
                   connVars,
                   conn, tmp, dlen, nowarning, ctx,
                   procState, panic_on_interface_error, sends, sentBytes>>

TdCheckLocal(t) ==
    /\ Running /\ pc[t] = "td_lci"
    /\ pc' = [pc EXCEPT ![t] =
                IF conn[t] \in local_client_interfaces THEN "td_lci_rm" ELSE "td_tail"]
    /\ UNCHANGED <<otherVars, srvVars, connVars, conn, tmp, dlen, nowarning, ctx, envVars>>

\* parent_interface is the server for a spawned connection, None otherwise.
HasParent(c) == c \in Children

TdRemoveLocal(t) ==
    /\ Running /\ pc[t] = "td_lci_rm"
    /\ IF conn[t] \in local_client_interfaces
       THEN /\ local_client_interfaces' = local_client_interfaces \ {conn[t]}
            /\ pc' = [pc EXCEPT ![t] = IF HasParent(conn[t]) THEN "td_cnt_rd" ELSE "td_tail"]
            /\ UNCHANGED tdRaised
       ELSE /\ pc' = [pc EXCEPT ![t] = RaiseTarget(t)]
            /\ tdRaised' = TRUE
            /\ UNCHANGED local_client_interfaces
    /\ UNCHANGED <<otherVars, interfaces, clients, srv_txb, srv_online,
                   connVars,
                   conn, tmp, dlen, nowarning, ctx,
                   procState, panic_on_interface_error, sends, sentBytes>>

\* self.parent_interface.clients -= 1 : the read ...
TdCountRead(t) ==
    /\ Running /\ pc[t] = "td_cnt_rd"
    /\ tmp' = [tmp EXCEPT ![t] = clients]
    /\ pc' = [pc EXCEPT ![t] = "td_cnt_wr"]
    /\ UNCHANGED <<otherVars, srvVars, connVars, conn, dlen, nowarning, ctx, envVars>>

\* ... and the write.
TdCountWrite(t) ==
    /\ Running /\ pc[t] = "td_cnt_wr"
    /\ clients' = tmp[t] - 1
    /\ tmp' = [tmp EXCEPT ![t] = 0]
    /\ pc' = [pc EXCEPT ![t] = "td_tail"]
    /\ UNCHANGED <<otherVars, interfaces, local_client_interfaces, srv_txb, srv_online,
                   connVars,
                   conn, dlen, nowarning, ctx, envVars>>

\* The end of teardown with the policy flag not consulted: every warned
\* teardown panics.
TdTail_always_panics(t) ==
    /\ Running /\ pc[t] = "td_tail"
    /\ IF ~nowarning[t]
       THEN procState' = "panicked" /\ UNCHANGED <<pc, tmp, dlen, nowarning, ctx>>
       ELSE IF is_connected_to_shared_instance[conn[t]]
            THEN procState' = "exited" /\ UNCHANGED <<pc, tmp, dlen, nowarning, ctx>>
            ELSE procState' = procState /\ Return(t, ReturnTarget(t))
    /\ UNCHANGED <<otherVars, srvVars, connVars, conn,
                   panic_on_interface_error, sends, sentBytes, tdRaised>>

\* The end of teardown: RNS.panic() on a warned teardown under the panic
\* policy, RNS.exit() for the connection to the shared instance, else return.
TdTail(t) ==
    /\ Running /\ pc[t] = "td_tail"
    /\ IF ~nowarning[t] /\ panic_on_interface_error
       THEN procState' = "panicked" /\ UNCHANGED <<pc, tmp, dlen, nowarning, ctx>>
       ELSE IF is_connected_to_shared_instance[conn[t]]
            THEN procState' = "exited" /\ UNCHANGED <<pc, tmp, dlen, nowarning, ctx>>
            ELSE procState' = procState /\ Return(t, ReturnTarget(t))
    /\ UNCHANGED <<otherVars, srvVars, connVars, conn,
                   panic_on_interface_error, sends, sentBytes, tdRaised>>

Teardown(t) ==
    \/ TdFlags(t)
    \/ TdCheckInterfaces(t)
    \/ TdRemoveInterfaces(t)
    \/ TdCheckLocal(t)
    \/ TdRemoveLocal(t)
    \/ TdCountRead(t)
    \/ TdCountWrite(t)
    \/ TdTail(t)

\* ------------------------------------------------------------ read loop
\* recv returned b"" (the peer closed): self.online = False
RecvZero(t) ==
    /\ Running /\ pc[t] = "rl_recv"
    /\ sock[conn[t]] = "peerclosed"
    /\ wire = <<>>
    /\ online' = [online EXCEPT ![conn[t]] = FALSE]
    /\ lastLoss' = IF conn[t] = Initiator THEN "close" ELSE lastLoss
    /\ pc' = [pc EXCEPT ![t] = "rl_closed"]
    /\ UNCHANGED <<srvVars, IN_on, OUT_on, is_connected_to_shared_instance, sock, txb,
                   conn, tmp, dlen, nowarning, ctx, envVars,
                   reconnecting, never_connected, detached, disappeared, reappeared,
                   jobs, dials, closes, errors, fails, frameVars>>

\* if self.is_connected_to_shared_instance and not self.detached:
\*     shared_connection_disappeared(); self.reconnect()
\* else: self.teardown(nowarning=True)
ReconnectEligible_flipped(c) == is_connected_to_shared_instance[c] /\ detached

ReconnectEligible(c) == is_connected_to_shared_instance[c] /\ ~detached

RlClosed(t) ==
    /\ Running /\ pc[t] = "rl_closed"
    /\ IF ReconnectEligible(conn[t])
       THEN /\ disappeared' = disappeared + 1
            /\ pc' = [pc EXCEPT ![t] = "rc_entry"]
            /\ UNCHANGED <<conn, nowarning, ctx>>
       ELSE /\ CallTeardown(t, conn[t], TRUE, "read_else")
            /\ UNCHANGED disappeared
    /\ UNCHANGED <<srvVars, connVars, tmp, dlen, envVars,
                   reconnecting, never_connected, detached, reappeared,
                   jobs, dials, closes, errors, fails, lastLoss, frameVars>>

\* recv raised (an I/O error on the socket): control goes to "except Exception"
RecvError(t) ==
    /\ Running /\ pc[t] = "rl_recv"
    /\ sock[conn[t]] = "error"
    /\ lastLoss' = IF conn[t] = Initiator THEN "error" ELSE lastLoss
    /\ pc' = [pc EXCEPT ![t] = "rl_exc"]
    /\ UNCHANGED <<srvVars, connVars, conn, tmp, dlen, nowarning, ctx, envVars,
                   reconnecting, never_connected, detached, disappeared, reappeared,
                   jobs, dials, closes, errors, fails, frameVars>>

\* except Exception: self.online = False; self.teardown()
RlExcept(t) ==
    /\ Running /\ pc[t] = "rl_exc"
    /\ online' = [online EXCEPT ![conn[t]] = FALSE]
    /\ CallTeardown(t, conn[t], FALSE, "read_exc")
    /\ UNCHANGED <<srvVars, IN_on, OUT_on, is_connected_to_shared_instance, sock, txb,
                   tmp, dlen, envVars, otherVars>>

\* ------------------------------------------- LocalServerInterface: accept
\* incoming_connection up to the registration: the spawned interface is built
\* around the accepted socket and given the server's IN, OUT and bitrate.
Accept(c) ==
    /\ Running /\ pc[Handler(c)] = "unborn"
    /\ conn' = [conn EXCEPT ![Handler(c)] = c]
    /\ online' = [online EXCEPT ![c] = TRUE]
    /\ IN_on' = [IN_on EXCEPT ![c] = TRUE]
    /\ OUT_on' = [OUT_on EXCEPT ![c] = FALSE]
    /\ is_connected_to_shared_instance' =
           [is_connected_to_shared_instance EXCEPT ![c] = FALSE]
    /\ sock' = [sock EXCEPT ![c] = "open"]
    /\ pc' = [pc EXCEPT ![Handler(c)] = "ic_if"]
    /\ UNCHANGED <<srvVars, txb, tmp, dlen, nowarning, ctx, envVars, otherVars>>

\* RNS.Transport.interfaces.append(spawned_interface)
IcAppendInterfaces(t) ==
    /\ Running /\ pc[t] = "ic_if"
    /\ interfaces' = interfaces \cup {conn[t]}
    /\ pc' = [pc EXCEPT ![t] = "ic_lci"]
    /\ UNCHANGED <<local_client_interfaces, clients, srv_txb, srv_online,
                   connVars,
                   conn, tmp, dlen, nowarning, ctx, envVars, otherVars>>

\* RNS.Transport.local_client_interfaces.append(spawned_interface)
IcAppendLocal(t) ==
    /\ Running /\ pc[t] = "ic_lci"
    /\ local_client_interfaces' = local_client_interfaces \cup {conn[t]}
    /\ pc' = [pc EXCEPT ![t] = "ic_cnt_rd"]
    /\ UNCHANGED <<interfaces, clients, srv_txb, srv_online,
                   connVars,
                   conn, tmp, dlen, nowarning, ctx, envVars, otherVars>>

\* self.clients += 1 : the read ...
IcCountRead(t) ==
    /\ Running /\ pc[t] = "ic_cnt_rd"
    /\ tmp' = [tmp EXCEPT ![t] = clients]
    /\ pc' = [pc EXCEPT ![t] = "ic_cnt_wr"]
    /\ UNCHANGED <<srvVars, connVars, conn, dlen, nowarning, ctx, envVars, otherVars>>

\* ... and the write; then spawned_interface.read_loop() on this thread.
IcCountWrite(t) ==
    /\ Running /\ pc[t] = "ic_cnt_wr"
    /\ clients' = tmp[t] + 1
    /\ tmp' = [tmp EXCEPT ![t] = 0]
    /\ pc' = [pc EXCEPT ![t] = "rl_recv"]
    /\ UNCHANGED <<interfaces, local_client_interfaces, srv_txb, srv_online,
                   connVars,
                   conn, dlen, nowarning, ctx, envVars, otherVars>>

IncomingConnection(t) ==
    \/ IcAppendInterfaces(t)
    \/ IcAppendLocal(t)
    \/ IcCountRead(t)
    \/ IcCountWrite(t)

\* ----------------------------------------------------- process_outgoing
\* The transport calls process_outgoing(data) on a registered interface;
\* "if self.online:" guards the whole body.
PoCall(t, c, f, budget) ==
    /\ Running /\ pc[t] = "idle"
    /\ c \in interfaces
    /\ sends < budget
    /\ sends' = sends + 1
    /\ IF online[c]
       THEN /\ pc' = [pc EXCEPT ![t] = "po_send"]
            /\ conn' = [conn EXCEPT ![t] = c]
            /\ dlen' = [dlen EXCEPT ![t] = Len(Encode(f))]
       ELSE UNCHANGED <<pc, conn, dlen>>
    /\ UNCHANGED <<srvVars, connVars, tmp, nowarning, ctx,
                   procState, panic_on_interface_error, sentBytes, tdRaised, otherVars>>

\* self.socket.sendall(data) returns
PoSendOk(t) ==
    /\ Running /\ pc[t] = "po_send"
    /\ sock[conn[t]] \in {"open", "peerclosed"}
    /\ sentBytes' = [sentBytes EXCEPT ![conn[t]] = @ + dlen[t]]
    /\ pc' = [pc EXCEPT ![t] = "po_txb_rd"]
    /\ UNCHANGED <<srvVars, connVars, conn, tmp, dlen, nowarning, ctx,
                   procState, panic_on_interface_error, sends, tdRaised, otherVars>>

\* self.socket.sendall(data) raises: except Exception: ... self.teardown()
PoSendFail(t) ==
    /\ Running /\ pc[t] = "po_send"
    /\ sock[conn[t]] # "open"
    /\ CallTeardown(t, conn[t], FALSE, "send")
    /\ UNCHANGED <<srvVars, connVars, tmp, dlen, envVars, otherVars>>

\* self.txb += len(data) : the read ...
PoTxbRead(t) ==
    /\ Running /\ pc[t] = "po_txb_rd"
    /\ tmp' = [tmp EXCEPT ![t] = txb[conn[t]]]
    /\ pc' = [pc EXCEPT ![t] = "po_txb_wr"]
    /\ UNCHANGED <<srvVars, connVars, conn, dlen, nowarning, ctx, envVars, otherVars>>

\* ... and the write
PoTxbWrite(t) ==
    /\ Running /\ pc[t] = "po_txb_wr"
    /\ txb' = [txb EXCEPT ![conn[t]] = tmp[t] + dlen[t]]
    /\ IF HasParent(conn[t])
       THEN /\ pc' = [pc EXCEPT ![t] = "po_ptxb_rd"]
            /\ tmp' = [tmp EXCEPT ![t] = 0]
            /\ UNCHANGED <<dlen, nowarning, ctx>>
       ELSE Return(t, "idle")
    /\ UNCHANGED <<srvVars, online, IN_on, OUT_on, is_connected_to_shared_instance, sock,
                   conn, envVars, otherVars>>

\* self.parent_interface.txb += len(data) : the read ...
PoParentTxbRead(t) ==
    /\ Running /\ pc[t] = "po_ptxb_rd"
    /\ tmp' = [tmp EXCEPT ![t] = srv_txb]
    /\ pc' = [pc EXCEPT ![t] = "po_ptxb_wr"]
    /\ UNCHANGED <<srvVars, connVars, conn, dlen, nowarning, ctx, envVars, otherVars>>

\* ... and the write
PoParentTxbWrite(t) ==
    /\ Running /\ pc[t] = "po_ptxb_wr"
    /\ srv_txb' = tmp[t] + dlen[t]
    /\ Return(t, "idle")
    /\ UNCHANGED <<interfaces, local_client_interfaces, clients, srv_online, connVars,
                   conn, envVars, otherVars>>

ProcessOutgoing(t) ==
    \/ PoSendOk(t)
    \/ PoTxbRead(t)
    \/ PoTxbWrite(t)
    \/ PoParentTxbRead(t)
    \/ PoParentTxbWrite(t)

\* ---------------------------------------------------------- environment
\* The peer closes its end of the connection.
PeerClose(c) ==
    /\ Running /\ sock[c] = "open"
    /\ c = Initiator => closes < MaxCloses
    /\ closes' = IF c = Initiator THEN closes + 1 ELSE closes
    /\ sock' = [sock EXCEPT ![c] = "peerclosed"]
    /\ UNCHANGED <<srvVars, online, IN_on, OUT_on, is_connected_to_shared_instance, txb,
                   thrVars, envVars,
                   reconnecting, never_connected, detached, disappeared, reappeared,
                   jobs, dials, errors, fails, lastLoss, frameVars>>

\* The socket fails (reset): the next recv or sendall raises.
SockError(c) ==
    /\ Running /\ sock[c] = "open"
    /\ c = Initiator => errors < MaxErrors
    /\ errors' = IF c = Initiator THEN errors + 1 ELSE errors
    /\ sock' = [sock EXCEPT ![c] = "error"]
    /\ UNCHANGED <<srvVars, online, IN_on, OUT_on, is_connected_to_shared_instance, txb,
                   thrVars, envVars,
                   reconnecting, never_connected, detached, disappeared, reappeared,
                   jobs, dials, closes, fails, lastLoss, frameVars>>

\* ------------------------------------- the shared-instance process: Spec
InitThreads(running) ==
    /\ pc = [t \in Threads |->
               IF t \in running THEN "rl_recv"
               ELSE IF t \in SenderThreads THEN "idle" ELSE "unborn"]
    /\ tmp = [t \in Threads |-> 0]
    /\ dlen = [t \in Threads |-> 0]
    /\ nowarning = [t \in Threads |-> FALSE]
    /\ ctx = [t \in Threads |-> "none"]

InitClientVars ==
    /\ reconnecting = FALSE
    /\ never_connected = TRUE
    /\ detached = FALSE
    /\ disappeared = 0
    /\ reappeared = 0
    /\ jobs = 0
    /\ dials = 0
    /\ closes = 0
    /\ errors = 0
    /\ fails = 0
    /\ lastLoss = "none"

InitFrameVars ==
    /\ wire = <<>>
    /\ frame_buffer = <<>>
    /\ delivered = <<>>
    /\ rxb = [c \in Conns |-> 0]
    /\ srv_rxb = 0
    /\ sent = <<>>
    /\ decoded = <<>>
    /\ pending = [c \in Conns |-> <<>>]
    /\ dispatched = [c \in Conns |-> <<>>]

\* LocalServerInterface.__init__ has run: no client accepted yet.
Init ==
    /\ interfaces = {}
    /\ local_client_interfaces = {}
    /\ clients = 0
    /\ srv_txb = 0
    /\ srv_online = TRUE
    /\ online = [c \in Conns |-> FALSE]
    /\ IN_on = [c \in Conns |-> FALSE]
    /\ OUT_on = [c \in Conns |-> FALSE]
    /\ is_connected_to_shared_instance = [c \in Conns |-> FALSE]
    /\ sock = [c \in Conns |-> "none"]
    /\ txb = [c \in Conns |-> 0]
    /\ InitThreads({})
    /\ conn = [t \in Threads |-> 0]
    /\ procState = "running"
    /\ panic_on_interface_error \in BOOLEAN
    /\ sends = 0
    /\ sentBytes = [c \in Conns |-> 0]
    /\ tdRaised = FALSE
    /\ InitClientVars
    /\ InitFrameVars

\* One transport thread sends while connections come and go.
LifecycleSenders == {Sender(1)}
ServerThreads == HandlerThreads \cup LifecycleSenders

Next ==
    \/ \E c \in Children : Accept(c)
    \/ \E t \in HandlerThreads : IncomingConnection(t)
    \/ \E t \in HandlerThreads : RecvZero(t) \/ RlClosed(t) \/ RecvError(t) \/ RlExcept(t)
    \/ \E t \in LifecycleSenders, c \in Children, f \in SendFrames :
          PoCall(t, c, f, LifecycleSends)
    \/ \E t \in LifecycleSenders : ProcessOutgoing(t) \/ PoSendFail(t)
    \/ \E t \in ServerThreads : Teardown(t)
    \/ \E c \in Children : PeerClose(c) \/ SockError(c)

Spec == Init /\ [][Next]_vars

\* ----------------------- concurrent sends on registered connections: SpecSend
\* Every child has been accepted and registered and sits in its read loop
\* (a state Spec reaches); the transport's threads send on them.
InitSend ==
    /\ interfaces = Children
    /\ local_client_interfaces = Children
    /\ clients = NumChildren
    /\ srv_txb = 0
    /\ srv_online = TRUE
    /\ online = [c \in Conns |-> c \in Children]
    /\ IN_on = [c \in Conns |-> c \in Children]
    /\ OUT_on = [c \in Conns |-> FALSE]
    /\ is_connected_to_shared_instance = [c \in Conns |-> FALSE]
    /\ sock = [c \in Conns |-> IF c \in Children THEN "open" ELSE "none"]
    /\ txb = [c \in Conns |-> 0]
    /\ InitThreads(HandlerThreads)
    /\ conn = [t \in Threads |-> IF t \in HandlerThreads THEN t[2] ELSE 0]
    /\ procState = "running"
    /\ panic_on_interface_error = FALSE
    /\ sends = 0
    /\ sentBytes = [c \in Conns |-> 0]
    /\ tdRaised = FALSE
    /\ InitClientVars
    /\ InitFrameVars

NextSend ==
    \/ \E t \in SenderThreads, c \in Children, f \in SendFrames : PoCall(t, c, f, MaxSends)
    \/ \E t \in SenderThreads : ProcessOutgoing(t)

SpecSend == InitSend /\ [][NextSend]_vars

\* ------------------------------------------------------------ reconnect
\* An exception that leaves reconnect(): in the read loop it is caught by
\* "except Exception"; in any other caller it propagates.
RcRaiseTarget(t) == IF t \in CallerThreads THEN "raised" ELSE "rl_exc"

\* if self.is_connected_to_shared_instance: if not self.reconnecting: ...
\* else: raise IOError(...)
RcEntry(t) ==
    /\ Running /\ pc[t] = "rc_entry"
    /\ pc' = [pc EXCEPT ![t] =
                IF ~is_connected_to_shared_instance[conn[t]] THEN RcRaiseTarget(t)
                ELSE IF reconnecting THEN "done"
                ELSE "rc_set"]
    /\ UNCHANGED <<srvVars, connVars, conn, tmp, dlen, nowarning, ctx, envVars, otherVars>>

\* self.reconnecting = True; attempts = 0
RcSet(t) ==
    /\ Running /\ pc[t] = "rc_set"
    /\ reconnecting' = TRUE
    /\ pc' = [pc EXCEPT ![t] = "rc_loop"]
    /\ UNCHANGED <<srvVars, connVars, conn, tmp, dlen, nowarning, ctx, envVars,
                   never_connected, detached, disappeared, reappeared,
                   jobs, dials, closes, errors, fails, lastLoss, frameVars>>

\* The loop test without its "not": the loop is left while offline.
RcLoop_inverted(t) ==
    /\ Running /\ pc[t] = "rc_loop"
    /\ pc' = [pc EXCEPT ![t] = IF ~online[conn[t]] THEN "rc_after" ELSE "rc_connect"]
    /\ UNCHANGED <<srvVars, connVars, conn, tmp, dlen, nowarning, ctx, envVars, otherVars>>

\* while not self.online: time.sleep(RECONNECT_WAIT); attempts += 1
RcLoop(t) ==
    /\ Running /\ pc[t] = "rc_loop"
    /\ pc' = [pc EXCEPT ![t] = IF online[conn[t]] THEN "rc_after" ELSE "rc_connect"]
    /\ UNCHANGED <<srvVars, connVars, conn, tmp, dlen, nowarning, ctx, envVars, otherVars>>

\* self.connect() succeeds: a new connected socket, online,
\* is_connected_to_shared_instance, never_connected = False
RcConnectOk(t) ==
    /\ Running /\ pc[t] = "rc_connect"
    /\ sock' = [sock EXCEPT ![conn[t]] = "open"]
    /\ online' = [online EXCEPT ![conn[t]] = TRUE]
    /\ is_connected_to_shared_instance' =
           [is_connected_to_shared_instance EXCEPT ![conn[t]] = TRUE]
    /\ never_connected' = FALSE
    /\ dials' = dials + 1
    /\ pc' = [pc EXCEPT ![t] = "rc_loop"]
    /\ UNCHANGED <<srvVars, IN_on, OUT_on, txb, conn, tmp, dlen, nowarning, ctx, envVars,
                   reconnecting, detached, disappeared, reappeared,
                   jobs, closes, errors, fails, lastLoss, frameVars>>

\* self.connect() raises (nobody listens): self.socket is the new, unconnected
\* socket; the exception is logged and the loop goes on.
RcConnectFail(t) ==
    /\ Running /\ pc[t] = "rc_connect"
    /\ fails < MaxFails
    /\ fails' = fails + 1
    /\ sock' = [sock EXCEPT ![conn[t]] = "unconnected"]
    /\ pc' = [pc EXCEPT ![t] = "rc_loop"]
    /\ UNCHANGED <<srvVars, online, IN_on, OUT_on, is_connected_to_shared_instance, txb,
                   conn, tmp, dlen, nowarning, ctx, envVars,
                   reconnecting, never_connected, detached, disappeared, reappeared,
                   jobs, dials, closes, errors, lastLoss, frameVars>>

\* The thread the next read loop runs on.
FreeReaders == {k \in 1..(MaxCloses + 2) : pc[Reader(k)] = "unborn"}
NextReader == Reader(CHOOSE k \in FreeReaders : \A j \in FreeReaders : k <= j)

\* self.reconnecting = False; threading.Thread(target=self.read_loop).start()
RcAfter(t) ==
    /\ Running /\ pc[t] = "rc_after"
    /\ FreeReaders # {}
    /\ reconnecting' = FALSE
    /\ pc' = [pc EXCEPT ![t] = "rc_job", ![NextReader] = "rl_recv"]
    /\ conn' = [conn EXCEPT ![NextReader] = conn[t]]
    /\ UNCHANGED <<srvVars, connVars, tmp, dlen, nowarning, ctx, envVars,
                   never_connected, detached, disappeared, reappeared,
                   jobs, dials, closes, errors, fails, lastLoss, frameVars>>

\* threading.Thread(target=job, daemon=True).start(); reconnect returns and
\* the read loop that called it breaks.
RcJob(t) ==
    /\ Running /\ pc[t] = "rc_job"
    /\ jobs' = jobs + 1
    /\ pc' = [pc EXCEPT ![t] = "done"]
    /\ UNCHANGED <<srvVars, connVars, conn, tmp, dlen, nowarning, ctx, envVars,
                   reconnecting, never_connected, detached, disappeared, reappeared,
                   dials, closes, errors, fails, lastLoss, frameVars>>

\* job(): time.sleep(RECONNECT_WAIT+2); RNS.Transport.shared_connection_reappeared()
JobRun ==
    /\ Running /\ jobs > 0
    /\ jobs' = jobs - 1
    /\ reappeared' = reappeared + 1
    /\ UNCHANGED <<srvVars, connVars, thrVars, envVars,
                   reconnecting, never_connected, detached, disappeared,
                   dials, closes, errors, fails, lastLoss, frameVars>>

Reconnect(t) ==
    \/ RcEntry(t)
    \/ RcSet(t)
    \/ RcLoop(t)
    \/ RcConnectOk(t)
    \/ RcConnectFail(t)
    \/ RcAfter(t)
    \/ RcJob(t)

\* A second disappearance signal: another thread calls reconnect() on the
\* connection while it is offline.
CallReconnect(t) ==
    /\ Running /\ pc[t] = "unborn"
    /\ ~online[Initiator] /\ is_connected_to_shared_instance[Initiator]
    /\ pc' = [pc EXCEPT ![t] = "rc_entry"]
    /\ conn' = [conn EXCEPT ![t] = Initiator]
    /\ UNCHANGED <<srvVars, connVars, tmp, dlen, nowarning, ctx, envVars, otherVars>>

\* --------------------------------------------- the client process: SpecClient
\* LocalClientInterface.__init__(owner, name, target_port) has run: connect()
\* succeeded, the owner registered the interface, the read loop thread started.
InitClient ==
    /\ interfaces = {Initiator}
    /\ local_client_interfaces = {}
    /\ clients = 0
    /\ srv_txb = 0
    /\ srv_online = FALSE
    /\ online = [c \in Conns |-> c = Initiator]
    /\ IN_on = [c \in Conns |-> c = Initiator]
    /\ OUT_on = [c \in Conns |-> FALSE]
    /\ is_connected_to_shared_instance = [c \in Conns |-> c = Initiator]
    /\ sock = [c \in Conns |-> IF c = Initiator THEN "open" ELSE "none"]
    /\ txb = [c \in Conns |-> 0]
    /\ InitThreads({Reader(1)})
    /\ conn = [t \in Threads |-> Initiator]
    /\ procState = "running"
    /\ panic_on_interface_error \in BOOLEAN
    /\ sends = 0
    /\ sentBytes = [c \in Conns |-> 0]
    /\ tdRaised = FALSE
    /\ reconnecting = FALSE
    /\ never_connected = FALSE
    /\ detached = FALSE
    /\ disappeared = 0
    /\ reappeared = 0
    /\ jobs = 0
    /\ dials = 0
    /\ closes = 0
    /\ errors = 0
    /\ fails = 0
    /\ lastLoss = "none"
    /\ InitFrameVars

\* The peer closes the socket, again and again; dials fail and succeed.
NextClose ==
    \/ \E t \in ReaderThreads : RecvZero(t) \/ RlClosed(t)
    \/ \E t \in ReaderThreads : Reconnect(t)
    \/ JobRun
    \/ PeerClose(Initiator)

\* Threads that can run do run; a dial that can succeed eventually does.
FairClose ==
    /\ \A t \in ReaderThreads : WF_vars(RecvZero(t) \/ RlClosed(t) \/ Reconnect(t))
    /\ \A t \in ReaderThreads : SF_vars(RcConnectOk(t))
    /\ WF_vars(JobRun)

SpecClose == InitClient /\ [][NextClose]_vars /\ FairClose

\* teardown() in a client process: local_client_interfaces is empty there.
TeardownClient(t) ==
    \/ TdFlags(t)
    \/ TdCheckInterfaces(t)
    \/ TdRemoveInterfaces(t)
    \/ TdCheckLocal(t)
    \/ TdTail(t)

\* The same with socket errors: recv may raise.
NextClient ==
    \/ NextClose
    \/ \E t \in ReaderThreads : RecvError(t) \/ RlExcept(t)
    \/ \E t \in ReaderThreads : TeardownClient(t)
    \/ SockError(Initiator)

SpecClient == InitClient /\ [][NextClient]_vars

\* The same as SpecClose with a second, concurrent caller of reconnect().
NextTrigger ==
    \/ NextClose
    \/ CallReconnect(Caller(1))
    \/ Reconnect(Caller(1))

SpecTrigger == InitClient /\ [][NextTrigger]_vars

\* ------------------------------------------- the byte stream: SpecFrame
\* The connection whose read loop is fed.
FrameConn == CHOOSE c \in Children : \A d \in Children : c <= d
FrameBytes == {FLAG, ESC, 94}
FramePayloads == SeqsUpTo(FrameBytes, MaxStream - 1)
\* What the peer has put on the stream so far: its payload bytes, and one
\* for each frame.
StreamCost(fs) == TotalLen(fs) + Len(fs)

\* The peer's process_outgoing: sendall(FLAG + escape(p) + FLAG).
PeerSend(p) ==
    /\ Running /\ StreamCost(sent) + Len(p) + 1 <= MaxStream
    /\ sock[FrameConn] = "open"
    /\ sent' = Append(sent, p)
    /\ wire' = wire \o Encode(p)
    /\ UNCHANGED <<srvVars, connVars, thrVars, envVars, cliVars,
                   frame_buffer, delivered, rxb, srv_rxb, decoded,
                   pending, dispatched>>

\* One pass of "while True": data_in = recv(4096) returns n > 0 bytes, they
\* are appended to frame_buffer and every complete frame in it is taken out;
\* process_incoming adds a delivered frame's length to rxb and to the
\* parent's rxb and calls owner.inbound.
RecvData(t, n) ==
    /\ Running /\ pc[t] = "rl_recv"
    /\ conn[t] = FrameConn
    /\ sock[conn[t]] \in {"open", "peerclosed"}
    /\ n \in 1..Len(wire) /\ n <= RECV_SIZE
    /\ LET r == Scan(frame_buffer \o SubSeq(wire, 1, n), <<>>) IN
          /\ frame_buffer' = r.buf
          /\ delivered' = delivered \o r.out
          /\ rxb' = [rxb EXCEPT ![conn[t]] = @ + TotalLen(r.out)]
          /\ srv_rxb' = IF HasParent(conn[t]) THEN srv_rxb + TotalLen(r.out) ELSE srv_rxb
    /\ wire' = SubSeq(wire, n + 1, Len(wire))
    /\ UNCHANGED <<srvVars, connVars, thrVars, envVars, cliVars, sent, decoded,
                   pending, dispatched>>

InitFrame == InitSend

NextFrame ==
    \/ \E p \in FramePayloads : PeerSend(p)
    \/ \E n \in 1..(2 * MaxStream) : RecvData(Handler(FrameConn), n)

SpecFrame == InitFrame /\ [][NextFrame]_vars

\* ------------------------------------------------ the codec: SpecCodec
CodecBytes == {FLAG, ESC, 93, 94, 65}
CodecPayloads == SeqsUpTo(CodecBytes, MaxLen)

\* process_outgoing builds the bytes it writes.
CodecEncode(p) ==
    /\ sent = <<>>
    /\ sent' = <<p>>
    /\ wire' = Encode(p)
    /\ UNCHANGED <<srvVars, connVars, thrVars, envVars, cliVars,
                   frame_buffer, delivered, rxb, srv_rxb, decoded,
                   pending, dispatched>>

\* The read loop's substitutions on what lies between the two delimiters.
CodecDecode ==
    /\ sent # <<>> /\ decoded = <<>>
    /\ decoded' = <<Decode(Slice(wire, 1, Len(wire) - 1))>>
    /\ UNCHANGED <<srvVars, connVars, thrVars, envVars, cliVars,
                   wire, frame_buffer, delivered, rxb, srv_rxb, sent,
                   pending, dispatched>>

NextCodec ==
    \/ \E p \in CodecPayloads : CodecEncode(p)
    \/ CodecDecode

SpecCodec == InitSend /\ [][NextCodec]_vars

\* ------------------------------------------------- detach: SpecDetach
\* sock values a local detach adds: "shutdown" (shutdown(SHUT_RDWR) done),
\* "closed" (close() done), "none" (self.socket = None).
\* detach() up to "self.detached = True": the three tests on self.socket pass
\* for a socket object; with self.socket None the call does nothing.
DtCall(t, c) ==
    /\ Running /\ pc[t] = "unborn"
    /\ sock[c] # "none"
    /\ detached' = TRUE
    /\ conn' = [conn EXCEPT ![t] = c]
    /\ pc' = [pc EXCEPT ![t] = "dt_shutdown"]
    /\ UNCHANGED <<srvVars, connVars, tmp, dlen, nowarning, ctx, envVars,
                   reconnecting, never_connected, disappeared, reappeared,
                   jobs, dials, closes, errors, fails, lastLoss, frameVars>>

\* try: self.socket.shutdown(socket.SHUT_RDWR): on a connected socket both
\* directions are shut; on any other it raises and the error is logged.
DtShutdown(t) ==
    /\ Running /\ pc[t] = "dt_shutdown"
    /\ sock' = [sock EXCEPT ![conn[t]] = IF @ \in {"open", "peerclosed"} THEN "shutdown" ELSE @]
    /\ pc' = [pc EXCEPT ![t] = "dt_close"]
    /\ UNCHANGED <<srvVars, online, IN_on, OUT_on, is_connected_to_shared_instance, txb,
                   conn, tmp, dlen, nowarning, ctx, envVars, otherVars>>

\* try: self.socket.close()
DtClose(t) ==
    /\ Running /\ pc[t] = "dt_close"
    /\ sock' = [sock EXCEPT ![conn[t]] = IF @ = "none" THEN @ ELSE "closed"]
    /\ pc' = [pc EXCEPT ![t] = "dt_release"]
    /\ UNCHANGED <<srvVars, online, IN_on, OUT_on, is_connected_to_shared_instance, txb,
                   conn, tmp, dlen, nowarning, ctx, envVars, otherVars>>

\* self.socket = None; detach returns.
DtRelease(t) ==
    /\ Running /\ pc[t] = "dt_release"
    /\ sock' = [sock EXCEPT ![conn[t]] = "none"]
    /\ pc' = [pc EXCEPT ![t] = "done"]
    /\ UNCHANGED <<srvVars, online, IN_on, OUT_on, is_connected_to_shared_instance, txb,
                   conn, tmp, dlen, nowarning, ctx, envVars, otherVars>>

Detach(t) ==
    \/ DtShutdown(t)
    \/ DtClose(t)
    \/ DtRelease(t)

\* recv on a socket this side has shut down returns b"": self.online = False
RecvAfterShutdown(t) ==
    /\ Running /\ pc[t] = "rl_recv"
    /\ sock[conn[t]] = "shutdown"
    /\ online' = [online EXCEPT ![conn[t]] = FALSE]
    /\ pc' = [pc EXCEPT ![t] = "rl_closed"]
    /\ UNCHANGED <<srvVars, IN_on, OUT_on, is_connected_to_shared_instance, sock, txb,
                   conn, tmp, dlen, nowarning, ctx, envVars, otherVars>>

\* recv on a closed or never connected socket raises OSError, and
\* self.socket.recv with self.socket None raises AttributeError: control goes
\* to "except Exception".
RecvOnReleased(t) ==
    /\ Running /\ pc[t] = "rl_recv"
    /\ sock[conn[t]] \in {"closed", "none", "unconnected"}
    /\ pc' = [pc EXCEPT ![t] = "rl_exc"]
    /\ UNCHANGED <<srvVars, connVars, conn, tmp, dlen, nowarning, ctx, envVars, otherVars>>

\* process_outgoing on the initiating connection: parent_interface is None.
ProcessOutgoingClient(t) ==
    \/ PoSendOk(t)
    \/ PoTxbRead(t)
    \/ PoTxbWrite(t)

\* A client process whose owner detaches the interface and sends on it while
\* the peer may close the socket.
NextDetach ==
    \/ NextClose
    \/ DtCall(Detacher, Initiator)
    \/ Detach(Detacher)
    \/ \E t \in ReaderThreads : RecvAfterShutdown(t) \/ RecvOnReleased(t) \/ RlExcept(t)
    \/ \E t \in LifecycleSenders, f \in SendFrames : PoCall(t, Initiator, f, LifecycleSends)
    \/ \E t \in LifecycleSenders : ProcessOutgoingClient(t) \/ PoSendFail(t)
    \/ \E t \in ReaderThreads \cup LifecycleSenders : TeardownClient(t)

SpecDetach == InitClient /\ [][NextDetach]_vars

\* ------------------------------------ loss of spawned links: SpecLoss
\* Every child has been accepted and registered and sits in its read loop
\* (a state Spec reaches), under either panic policy; sockets close and fail.
InitLoss ==
    /\ interfaces = Children
    /\ local_client_interfaces = Children
    /\ clients = NumChildren
    /\ srv_txb = 0
    /\ srv_online = TRUE
    /\ online = [c \in Conns |-> c \in Children]
    /\ IN_on = [c \in Conns |-> c \in Children]
    /\ OUT_on = [c \in Conns |-> FALSE]
    /\ is_connected_to_shared_instance = [c \in Conns |-> FALSE]
    /\ sock = [c \in Conns |-> IF c \in Children THEN "open" ELSE "none"]
    /\ txb = [c \in Conns |-> 0]
    /\ InitThreads(HandlerThreads)
    /\ conn = [t \in Threads |-> IF t \in HandlerThreads THEN t[2] ELSE 0]
    /\ procState = "running"
    /\ panic_on_interface_error \in BOOLEAN
    /\ sends = 0
    /\ sentBytes = [c \in Conns |-> 0]
    /\ tdRaised = FALSE
    /\ InitClientVars
    /\ InitFrameVars

NextLoss ==
    \/ \E c \in Children : PeerClose(c) \/ SockError(c)
    \/ \E t \in HandlerThreads : RecvZero(t) \/ RlClosed(t) \/ RecvError(t) \/ RlExcept(t)
    \/ \E t \in HandlerThreads : Teardown(t)

SpecLoss == InitLoss /\ [][NextLoss]_vars

\* --------------------------------- process_incoming step by step: SpecRx
\* Frames the peers send: the two shortest lengths that pass the filter.
RxFrames == {f \in SeqsUpTo({65}, HEADER_MINSIZE + 2) : Deliverable(f)}

RECURSIVE EncodeAll(_)
EncodeAll(fs) == IF fs = <<>> THEN <<>> ELSE Encode(Head(fs)) \o EncodeAll(Tail(fs))

\* One pass of "while True" whose recv returns the whole frames fs: the
\* frames the scan takes out of the data are processed one after the other.
\* Data the peer sent before it closed is still returned by recv.
RxData(t, fs) ==
    /\ Running /\ pc[t] = "rl_recv"
    /\ sock[conn[t]] \in {"open", "peerclosed"}
    /\ fs # <<>> /\ Len(EncodeAll(fs)) <= RECV_SIZE
    /\ Len(dispatched[conn[t]]) + Len(fs) <= MaxRx
    /\ pending' = [pending EXCEPT ![conn[t]] = Scan(EncodeAll(fs), <<>>).out]
    /\ pc' = [pc EXCEPT ![t] = "pi_rxb_rd"]
    /\ UNCHANGED <<srvVars, connVars, conn, tmp, dlen, nowarning, ctx, envVars, cliVars,
                   wire, frame_buffer, delivered, rxb, srv_rxb, sent, decoded, dispatched>>

\* self.rxb += len(data) : the read ...
PiRxbRead(t) ==
    /\ Running /\ pc[t] = "pi_rxb_rd"
    /\ tmp' = [tmp EXCEPT ![t] = rxb[conn[t]]]
    /\ pc' = [pc EXCEPT ![t] = "pi_rxb_wr"]
    /\ UNCHANGED <<srvVars, connVars, conn, dlen, nowarning, ctx, envVars, otherVars>>

\* ... and the write
PiRxbWrite(t) ==
    /\ Running /\ pc[t] = "pi_rxb_wr"
    /\ rxb' = [rxb EXCEPT ![conn[t]] = tmp[t] + Len(Head(pending[conn[t]]))]
    /\ tmp' = [tmp EXCEPT ![t] = 0]
    /\ pc' = [pc EXCEPT ![t] = IF HasParent(conn[t]) THEN "pi_prxb_rd" ELSE "pi_inbound"]
    /\ UNCHANGED <<srvVars, connVars, conn, dlen, nowarning, ctx, envVars, cliVars,
                   wire, frame_buffer, delivered, srv_rxb, sent, decoded,
                   pending, dispatched>>

\* self.parent_interface.rxb += len(data) : the read ...
PiParentRxbRead(t) ==
    /\ Running /\ pc[t] = "pi_prxb_rd"
    /\ tmp' = [tmp EXCEPT ![t] = srv_rxb]
    /\ pc' = [pc EXCEPT ![t] = "pi_prxb_wr"]
    /\ UNCHANGED <<srvVars, connVars, conn, dlen, nowarning, ctx, envVars, otherVars>>

\* ... and the write
PiParentRxbWrite(t) ==
    /\ Running /\ pc[t] = "pi_prxb_wr"
    /\ srv_rxb' = tmp[t] + Len(Head(pending[conn[t]]))
    /\ tmp' = [tmp EXCEPT ![t] = 0]
    /\ pc' = [pc EXCEPT ![t] = "pi_inbound"]
    /\ UNCHANGED <<srvVars, connVars, conn, dlen, nowarning, ctx, envVars, cliVars,
                   wire, frame_buffer, delivered, rxb, sent, decoded,
                   pending, dispatched>>

\* The dispatch with the exception of owner.inbound not caught: control
\* leaves the loop for read_loop's "except Exception".
PiInbound_uncaught(t, raises) ==
    /\ Running /\ pc[t] = "pi_inbound"
    /\ dispatched' = [dispatched EXCEPT ![conn[t]] =
                         Append(@, [frame |-> Head(pending[conn[t]]), raised |-> raises])]
    /\ pending' = [pending EXCEPT ![conn[t]] = IF raises THEN <<>> ELSE Tail(@)]
    /\ pc' = [pc EXCEPT ![t] = IF raises THEN "rl_exc"
                               ELSE IF Tail(pending[conn[t]]) # <<>> THEN "pi_rxb_rd"
                               ELSE "rl_recv"]
    /\ UNCHANGED <<srvVars, connVars, conn, tmp, dlen, nowarning, ctx, envVars, cliVars,
                   wire, frame_buffer, delivered, rxb, srv_rxb, sent, decoded>>

\* try: self.owner.inbound(data, self) except Exception: log; then the scan
\* goes on with the next frame of the buffer, or back to recv.
PiInbound(t, raises) ==
    /\ Running /\ pc[t] = "pi_inbound"
    /\ dispatched' = [dispatched EXCEPT ![conn[t]] =
                         Append(@, [frame |-> Head(pending[conn[t]]), raised |-> raises])]
    /\ pending' = [pending EXCEPT ![conn[t]] = Tail(@)]
    /\ pc' = [pc EXCEPT ![t] = IF Tail(pending[conn[t]]) # <<>> THEN "pi_rxb_rd"
                               ELSE "rl_recv"]
    /\ UNCHANGED <<srvVars, connVars, conn, tmp, dlen, nowarning, ctx, envVars, cliVars,
                   wire, frame_buffer, delivered, rxb, srv_rxb, sent, decoded>>

ProcessIncoming(t) ==
    \/ PiRxbRead(t)
    \/ PiRxbWrite(t)
    \/ PiParentRxbRead(t)
    \/ PiParentRxbWrite(t)
    \/ \E raises \in BOOLEAN : PiInbound(t, raises)

\* Every child is registered and in its read loop; frames arrive on each.
NextRx ==
    \/ \E t \in HandlerThreads, fs \in SeqsUpTo(RxFrames, MaxRx) : RxData(t, fs)
    \/ \E t \in HandlerThreads : ProcessIncoming(t)

SpecRx == InitSend /\ [][NextRx]_vars

\* ------------------------- receiving while sends fail: SpecRxTeardown
\* Every child is registered and in its read loop; on one of them frames
\* arrive, the socket closes or fails, and one transport thread sends.
NextRxTeardown ==
    \/ \E f \in RxFrames : RxData(Handler(FrameConn), <<f>>)
    \/ ProcessIncoming(Handler(FrameConn))
    \/ \E t \in {Handler(FrameConn)} :
          RecvZero(t) \/ RlClosed(t) \/ RecvError(t) \/ RlExcept(t)
    \/ \E t \in LifecycleSenders, f \in SendFrames :
          PoCall(t, FrameConn, f, LifecycleSends)
    \/ \E t \in LifecycleSenders : ProcessOutgoing(t) \/ PoSendFail(t)
    \/ \E t \in {Handler(FrameConn)} \cup LifecycleSenders : Teardown(t)
    \/ PeerClose(FrameConn) \/ SockError(FrameConn)

SpecRxTeardown == InitSend /\ [][NextRxTeardown]_vars

\* ---------------------- one read loop and its callback: SpecInbound
\* Frames arrive on one registered connection; owner.inbound returns or
\* raises.
InboundFrames == {f \in SeqsUpTo({65, ESC}, HEADER_MINSIZE + 1) : Deliverable(f)}

NextInbound ==
    \/ \E fs \in SeqsUpTo(InboundFrames, MaxRx) : RxData(Handler(FrameConn), fs)
    \/ ProcessIncoming(Handler(FrameConn))

SpecInbound == InitSend /\ [][NextInbound]_vars

\* ------------------------------------------------------------ properties
ThreadsAt(S) == {t \in Threads : pc[t] \in S}

RegistrationPCs == {"ic_if", "ic_lci", "ic_cnt_rd", "ic_cnt_wr"}
TeardownPCs == {"td_flags", "td_if", "td_if_rm", "td_lci", "td_lci_rm",
                "td_cnt_rd", "td_cnt_wr", "td_tail"}
ReconnectPCs == {"rc_entry", "rc_set", "rc_loop", "rc_connect", "rc_after", "rc_job"}
SendPCs == {"po_send", "po_txb_rd", "po_txb_wr", "po_ptxb_rd", "po_ptxb_wr"}

\* C1: teardown is idempotent: called twice on one connection, one call after
\* the other or concurrently from a failed send and a failed read, it removes
\* the connection from each registry once and no call raises.
C1_TeardownNeverRaises ==
    /\ ~tdRaised
    /\ \A t \in Threads : pc[t] # "raised"

\* C2: whenever no registration and no teardown is in progress, the server's
\* clients counter is the number of its children in RNS.Transport.interfaces,
\* and it is never negative.
C2_ClientCount ==
    /\ clients >= 0
    /\ ThreadsAt(RegistrationPCs \cup TeardownPCs) = {}
           => clients = Cardinality(interfaces \cap Children)

\* C5: whenever no process_outgoing call is in progress, each connection's
\* txb is the total length of the encoded frames it sent, and the parent's
\* txb is the total over its children.
RECURSIVE SumOver(_, _)
SumOver(f, S) ==
    IF S = {} THEN 0
    ELSE LET x == CHOOSE y \in S : TRUE IN f[x] + SumOver(f, S \ {x})

C5_TxAccounting ==
    ThreadsAt(SendPCs) = {}
        => /\ \A c \in Children : txb[c] = sentBytes[c]
           /\ srv_txb = SumOver(sentBytes, Children)

\* C7: a spawned connection whose peer closed is removed from both registries,
\* lowers the parent's clients counter by exactly one, and is never
\* reconnected: no disappeared hook, no connect().
C7_SpawnedClose ==
    /\ [](disappeared = 0 /\ dials = 0 /\ fails = 0)
    /\ [](\A t \in HandlerThreads :
             /\ pc[t] \notin ReconnectPCs
             /\ pc[t] = "done" => /\ conn[t] \notin interfaces
                                  /\ conn[t] \notin local_client_interfaces)
    /\ [][\A t \in HandlerThreads :
             pc[t] = "td_cnt_wr" /\ pc'[t] # "td_cnt_wr" => clients' = clients - 1]_vars

RetryPCs == {"rc_loop", "rc_connect"}

\* C3: reconnect() is single-flight: triggered twice concurrently on the
\* initiating connection, at most one retry loop is active at any time, one
\* read loop is started per successful dial, and reconnecting is false once
\* the loop has finished.
C3_SingleFlight ==
    /\ Cardinality(ThreadsAt(RetryPCs)) <= 1
    /\ Cardinality(ThreadsAt({"rl_recv"})) <= 1
    /\ ThreadsAt({"rc_set"} \cup RetryPCs \cup {"rc_after"}) = {} => ~reconnecting

\* C4 as claimed: every link loss the read loop of the initiating, not
\* detached connection observes, a peer close or an I/O error, leads into the
\* reconnect loop, and the process is not terminated.  (In SpecClient every
\* loss is of that kind.)
C4_LossIsRecoverable ==
    /\ procState = "running"
    /\ \A t \in ReaderThreads : pc[t] \notin TeardownPCs \cup {"rl_exc"}

\* C4 as amended: a peer close (zero-length read) on the initiating, not
\* detached connection leads into the retry loop with the process running; an
\* I/O error raised by recv leads to teardown with a warning, from which the
\* thread never returns: the process is terminated there (RNS.exit, or
\* RNS.panic under panic_on_interface_error).
C4_CloseRecoversErrorTerminates ==
    /\ [][\A t \in ReaderThreads :
             pc[t] = "rl_closed" /\ pc'[t] # "rl_closed"
                 => pc'[t] = "rc_entry" /\ procState' = "running"]_vars
    /\ [][\A t \in ReaderThreads :
             pc[t] = "rc_entry" /\ pc'[t] # "rc_entry" => pc'[t] = "rc_set"]_vars
    /\ [][\A t \in ReaderThreads :
             pc[t] = "rl_recv" /\ pc'[t] = "rl_exc" => sock[Initiator] = "error"]_vars
    /\ [](\A t \in ReaderThreads :
             pc[t] \in TeardownPCs \cup {"rl_exc"} => lastLoss = "error")
    /\ [](\A t \in ReaderThreads : pc[t] \in TeardownPCs => ~nowarning[t])
    /\ [][\A t \in ReaderThreads : pc[t] = "td_tail" => pc'[t] = "td_tail"]_vars
    /\ [](procState # "running" =>
             /\ lastLoss = "error"
             /\ \E t \in ReaderThreads : pc[t] = "td_tail")

\* A close was survived by a reconnect, then an I/O error ended the process.
C4_Witness ==
    /\ procState = "exited"
    /\ lastLoss = "error"
    /\ dials >= 1

ReadersAt(S) == ThreadsAt(S) \cap ReaderThreads

\* C6: each time the peer closes the initiating connection's socket, the
\* connection goes offline, shared_connection_disappeared() is called once,
\* connect() is retried until it succeeds, then
\* shared_connection_reappeared() is called once, after the successful dial,
\* and the connection is online again with a running read loop.
C6_CloseScenario ==
    /\ [](disappeared <= closes /\ dials <= disappeared /\ reappeared <= dials)
    /\ [][\A t \in ReaderThreads :
             pc[t] = "rl_recv" /\ pc'[t] = "rl_closed" => ~online'[Initiator]]_vars
    /\ [](\A t \in ReaderThreads :
             pc[t] = "rc_after" => online[Initiator] /\ dials = disappeared)
    /\ \A k \in 1..MaxCloses :
          (closes >= k) ~> (disappeared >= k /\ dials >= k /\ reappeared >= k)
    /\ \A k \in 1..MaxCloses :
          (closes >= k) ~> (dials >= k /\ online[Initiator] /\ ReadersAt({"rl_recv"}) # {})

\* Every close was answered: a failed dial was retried, the hooks fired once
\* per close, the connection is online and a read loop is running.
C6_Witness ==
    /\ closes = MaxCloses /\ fails >= 1
    /\ disappeared = MaxCloses /\ reappeared = MaxCloses
    /\ online[Initiator] /\ ReadersAt({"rl_recv"}) # {}

IsPrefix(a, b) == Len(a) <= Len(b) /\ a = SubSeq(b, 1, Len(a))

LongEnough(f) == Len(f) > HEADER_MINSIZE

C9_RoundTrip == decoded # <<>> => decoded[1] = sent[1]

\* The payload 0x7D 0x5E went through escape and decode.
C9_Witness == sent = << <<ESC, 94>> >> /\ decoded = << <<ESC, 94>> >>

\* The bytes a payload byte is written as.
Written(b) == IF b = 125 THEN <<125, 93>> ELSE IF b = 126 THEN <<125, 94>> ELSE <<b>>

RECURSIVE WrittenAll(_)
WrittenAll(p) == IF p = <<>> THEN <<>> ELSE Written(Head(p)) \o WrittenAll(Tail(p))

\* C10: the bytes process_outgoing writes hold 0x7E at the first and the last
\* position only, every 0x7D between them is followed by 0x5D or 0x5E, and
\* they are the payload with 0x7D written 0x7D 0x5D and 0x7E written 0x7D 0x5E.
C10_DelimiterClean ==
    sent # <<>> /\ decoded = <<>> =>
        /\ Len(wire) >= 2
        /\ \A i \in 1..Len(wire) : wire[i] = 126 <=> i \in {1, Len(wire)}
        /\ \A i \in 2..(Len(wire) - 1) :
              wire[i] = 125 => i + 1 < Len(wire) /\ wire[i + 1] \in {93, 94}
        /\ Slice(wire, 1, Len(wire) - 1) = WrittenAll(sent[1])

\* A payload holding both special bytes was encoded.
C10_Witness ==
    /\ sent = << <<ESC, FLAG, 65>> >>
    /\ wire = <<126, 125, 93, 125, 94, 65, 126>>

\* C11: process_outgoing returns normally to its caller whatever the state of
\* the connection and whatever the read loop and teardown do meanwhile: no
\* exception leaves it, a failed write ends in log lines and teardown only.
C11_SendReturns == \A t \in SenderThreads : pc[t] # "raised"

DetachReturned == pc[Detacher] = "done"

\* C12: once detach() has been called on the initiating connection, the
\* closure of its socket fires no shared_connection_disappeared(), and once
\* detach has returned no connect() is attempted and the connection does not
\* become online again, also when the read loop had already seen a peer close.
C12_DetachSuppressesReconnect ==
    /\ [][detached => disappeared' = disappeared]_vars
    /\ [][DetachReturned => dials' = dials /\ fails' = fails]_vars
    /\ [][DetachReturned /\ ~online[Initiator] => ~online'[Initiator]]_vars

RECURSIVE EncodedLen(_)
EncodedLen(fs) == IF fs = <<>> THEN 0 ELSE Len(Encode(Head(fs))) + EncodedLen(Tail(fs))

\* Bytes of the stream recv has returned so far.
Consumed == EncodedLen(sent) - Len(wire)

\* How many of the frames sent have had their closing delimiter read.
ClosedFrames ==
    LET ks == {k \in 0..Len(sent) : EncodedLen(SubSeq(sent, 1, k)) <= Consumed}
    IN  CHOOSE k \in ks : \A j \in ks : j <= k

\* C13: a frame whose closing delimiter has not been read yet causes no
\* owner.inbound call and no change of rxb, however the bytes before it were
\* chunked; it is delivered once a later read supplies the delimiter.
C13_PartialFrame ==
    /\ delivered = SelectSeq(SubSeq(sent, 1, ClosedFrames), LongEnough)
    /\ rxb[FrameConn] = TotalLen(delivered)
    /\ srv_rxb = TotalLen(delivered)

\* FLAG + escape(f) of a frame long enough has been read, its closing
\* delimiter is still to come, and nothing was delivered.
C13_Witness ==
    /\ sent = << <<ESC, FLAG>> >>
    /\ wire = <<FLAG>>
    /\ frame_buffer = <<126, 125, 93, 125, 94>>
    /\ delivered = <<>> /\ rxb[FrameConn] = 0

\* C14: a frame is handed to owner.inbound exactly when its decoded length is
\* greater than HEADER_MINSIZE; a frame not longer than that, the empty frame
\* between two adjacent delimiters included, causes no inbound call, no change
\* of an rx counter, no teardown and no offline transition, and the frames
\* after it are still delivered.
C14_MinSizeFilter ==
    /\ [](\A i \in DOMAIN delivered : Len(delivered[i]) > HEADER_MINSIZE)
    /\ [](Len(delivered) =
             Cardinality({k \in 1..ClosedFrames : Len(sent[k]) > HEADER_MINSIZE}))
    /\ [][Len(delivered') = Len(delivered) => rxb' = rxb /\ srv_rxb' = srv_rxb]_vars
    /\ [](/\ online[FrameConn]
          /\ FrameConn \in interfaces \cap local_client_interfaces
          /\ pc[Handler(FrameConn)] = "rl_recv"
          /\ procState = "running")

\* An empty frame was dropped, and the frame after it was delivered.
C14_Witness ==
    /\ sent = << <<>>, <<94, 94>> >>
    /\ wire = <<>>
    /\ delivered = << <<94, 94>> >>
    /\ rxb[FrameConn] = 2
    /\ online[FrameConn]

\* Thread t takes a step of teardown().
TeardownStep(t) == pc[t] \in TeardownPCs /\ pc'[t] # pc[t]

\* The flags and registrations of every child but c stay as they are.
OthersUntouched(c) ==
    \A d \in Children \ {c} :
        /\ online'[d] = online[d] /\ IN_on'[d] = IN_on[d] /\ OUT_on'[d] = OUT_on[d]
        /\ (d \in interfaces') = (d \in interfaces)
        /\ (d \in local_client_interfaces') = (d \in local_client_interfaces)

\* C15 as claimed: when a spawned child's socket closes or errors, only that
\* child is torn down, the server stays online, and the process is neither
\* exited nor aborted.
C15_ChildLossIsLocal ==
    /\ [](procState = "running")
    /\ [](srv_online)
    /\ [][\A t \in HandlerThreads : TeardownStep(t) => OthersUntouched(conn[t])]_vars

\* C15 as amended: the teardown of a spawned child touches no other child and
\* not the server, and never exits the process; it aborts the process
\* (RNS.panic) exactly when it was called with the warning, as the read
\* loop's exception handler calls it after a socket error, and
\* panic_on_interface_error is set.
C15_ChildLossIsLocalUnlessPanic ==
    /\ [](procState # "exited")
    /\ [](srv_online)
    /\ [][\A t \in Threads : TeardownStep(t) => OthersUntouched(conn[t])]_vars
    /\ [][\A t \in Threads :
             pc[t] = "td_tail" /\ pc'[t] # pc[t]
                 => procState' = "running" /\ (nowarning[t] \/ ~panic_on_interface_error)]_vars
    /\ [][procState = "running" /\ procState' = "panicked" => panic_on_interface_error]_vars
    /\ [](procState = "panicked" =>
             \E t \in Threads : pc[t] = "td_tail" /\ ~nowarning[t])

\* A child's socket error has aborted the process under the panic policy,
\* with a sibling still registered and online.
C15_Witness ==
    /\ procState = "panicked" /\ panic_on_interface_error
    /\ \E c \in Children, d \in Children :
          /\ c # d
          /\ sock[c] = "error" /\ pc[Handler(c)] = "td_tail" /\ c \notin interfaces
          /\ d \in interfaces \cap local_client_interfaces /\ online[d]

RECURSIVE DispatchedLen(_)
DispatchedLen(ds) == IF ds = <<>> THEN 0 ELSE Len(Head(ds).frame) + DispatchedLen(Tail(ds))

DispatchedBy(S) == [c \in S |-> DispatchedLen(dispatched[c])]

ProcessIncomingPCs == {"pi_rxb_rd", "pi_rxb_wr", "pi_prxb_rd", "pi_prxb_wr", "pi_inbound"}

\* C16: when owner.inbound is called for a frame, rxb and the parent's rxb
\* have already been increased by its length; they change at no other time,
\* so with no frame in process_incoming each equals the total length of the
\* frames dispatched; no counter ever decreases.
C16_RxAccounting ==
    /\ [](\A c \in Children : rxb[c] >= DispatchedLen(dispatched[c]))
    /\ [](srv_rxb >= SumOver(DispatchedBy(Children), Children))
    /\ [](ThreadsAt(ProcessIncomingPCs) = {} =>
             /\ \A c \in Children : rxb[c] = DispatchedLen(dispatched[c])
             /\ srv_rxb = SumOver(DispatchedBy(Children), Children))
    /\ [][/\ \A c \in Conns : rxb'[c] >= rxb[c] /\ txb'[c] >= txb[c]
          /\ srv_rxb' >= srv_rxb /\ srv_txb' >= srv_txb]_vars

\* C17: a connection that is online has a socket (self.socket is not None),
\* so process_outgoing never writes on an absent socket: a send made after
\* detach() touches no socket and ends in no teardown with a warning.
C17_OnlineImpliesSocket ==
    /\ \A c \in Conns : online[c] => sock[c] # "none"
    /\ \A t \in SenderThreads : pc[t] = "po_send" => sock[conn[t]] # "none"
    /\ \A t \in SenderThreads : pc[t] \in TeardownPCs /\ ~nowarning[t] => ~DetachReturned

\* C18: whenever the delayed job calls shared_connection_reappeared(), the
\* initiating connection is online and in no reconnect loop, and the
\* disappeared and reappeared notifications alternate: no second disappeared
\* before the reappeared of the one before.
C18_ReappearedOnLiveLink ==
    /\ [][reappeared' # reappeared =>
             /\ online[Initiator] /\ ~reconnecting
             /\ ReadersAt(ReconnectPCs \ {"rc_job"}) = {}]_vars
    /\ [](disappeared - reappeared \in {0, 1})

\* teardown() has run to its end for connection c.
TornDown(c) ==
    /\ ~online[c] /\ ~IN_on[c] /\ ~OUT_on[c]
    /\ c \notin interfaces \cup local_client_interfaces
    /\ \A t \in Threads : pc[t] \in TeardownPCs => conn[t] # c

\* C19: once teardown() has run for a connection, its read loop makes no
\* further owner.inbound call and changes no rx counter.
C19_NoInboundAfterTeardown ==
    [][\A c \in Children :
          TornDown(c) => dispatched'[c] = dispatched[c] /\ rxb'[c] = rxb[c]]_vars

\* Thread t makes the owner.inbound call of process_incoming.
InboundStep(t) == pc[t] = "pi_inbound" /\ pc'[t] # pc[t]

\* C20: when owner.inbound raises, process_incoming catches the exception:
\* the rx counters keep the frame's increment, the connection stays online
\* and registered with no teardown and no reconnect, and the frames after it
\* in the stream are delivered in order.
C20_InboundFailureContained ==
    /\ [][\A t \in HandlerThreads : InboundStep(t) =>
             /\ rxb' = rxb /\ srv_rxb' = srv_rxb
             /\ pending'[conn[t]] = Tail(pending[conn[t]])
             /\ Len(dispatched'[conn[t]]) = Len(dispatched[conn[t]]) + 1
             /\ dispatched'[conn[t]][Len(dispatched'[conn[t]])].frame = Head(pending[conn[t]])
             /\ pc'[t] = (IF pending'[conn[t]] # <<>> THEN "pi_rxb_rd" ELSE "rl_recv")]_vars
    /\ [](\A c \in Children :
             /\ online[c] /\ c \in interfaces \cap local_client_interfaces
             /\ pc[Handler(c)] \in ProcessIncomingPCs \cup {"rl_recv"}
             /\ pending[c] # <<>> => pc[Handler(c)] \in ProcessIncomingPCs
             /\ pc[Handler(c)] = "rl_recv" => rxb[c] = DispatchedLen(dispatched[c]))
    /\ [](disappeared = 0 /\ dials = 0 /\ procState = "running")

\* owner.inbound raised for the first frame of a read, and the second frame
\* of that read was delivered after it.
C20_Witness ==
    /\ Len(dispatched[FrameConn]) = 2
    /\ dispatched[FrameConn][1].raised /\ ~dispatched[FrameConn][2].raised
    /\ dispatched[FrameConn][1].frame = <<ESC, 65>>
    /\ dispatched[FrameConn][2].frame = <<65, ESC>>
    /\ rxb[FrameConn] = DispatchedLen(dispatched[FrameConn])
    /\ online[FrameConn] /\ FrameConn \in interfaces
    /\ pc[Handler(FrameConn)] = "rl_recv"

====
